---- MODULE Spec2Model ----
(***************************************************************************)
(* Social-login gateway (theDevSoham/social-auth): the Authenticator       *)
(* (authenticate / verify_app_token / delete_user), the MongoDataStore     *)
(* identity collection and the dual-backend TokenStore, as a state machine.*)
(*                                                                         *)
(* Every request is a coroutine of one asyncio event loop.  A coroutine    *)
(* runs without interruption between two awaits, so each action below is   *)
(* one backend operation (a Mongo command, a validator HTTP round trip, a  *)
(* token-store statement) together with the synchronous code that follows  *)
(* it up to the next backend operation.                                    *)
(***************************************************************************)
EXTENDS Integers, Sequences, FiniteSets, TLC

(* ------------------------------ bounds -------------------------------- *)
NProcs  == 2      \* concurrent request coroutines
MaxTime == 2      \* the clock runs over 0..MaxTime (seconds)
MaxJti  == 2      \* uuid4 values handed out
MaxTTL  == 1      \* largest configured AUTH_JWT_EXP_SECONDS
MaxInits == 3     \* calls of init_services in one run

(* ------------------------- program constants -------------------------- *)
MaxRetries == 3   \* async_retry(..., retries=3, ...)

Procs == 1..NProcs
Jtis  == 1..MaxJti
Times == 0..MaxTime

\* AUTH_JWT_EXP_SECONDS is int(os.getenv(...)): any integer, zero included.
TTLs == 0..MaxTTL

\* None as the value of a str-or-None variable, and None as a call's result.
NoneVal  == "<None>"
NoResult == [none |-> TRUE]

\* Provider names a caller may send, raw social tokens, and the secret.
ProviderInputs == {"Facebook", "linkedin"}
SocialTokens   == {"tok1", "tok2"}
JwtSecret      == "please-change-this-secret"
JwtAlgo        == "HS256"
ForgedSecret   == "attacker-secret"

\* str.lower() on the provider names above.
Lower(s) ==
  CASE s = "Twitter"  -> "twitter"
    [] s = "Facebook" -> "facebook"
    [] s = "LinkedIn" -> "linkedin"
    [] OTHER          -> s

\* Responses a Provider Validator may return (dicts; a key may be absent).
Infos ==
  { [uid |-> "42", name |-> "Alice", email |-> "a@x"],
    [uid |-> "42", name |-> "Bob",   email |-> "a@x"],
    [uid |-> "42", name |-> "Alice"],
    [uid |-> "42", name |-> "Alice", email |-> "a@x", scopes |-> "email"],
    [name |-> "Alice", email |-> "a@x"],
    [uid |-> "",   name |-> "Alice", email |-> "a@x"] }

(* --------------------------- dict helpers ----------------------------- *)
\* dict.get(k)
DictGet(d, k) == IF k \in DOMAIN d THEN d[k] ELSE NoneVal
\* A truthiness test that takes the empty string for a value.
Falsy_OnlyNone(v) == v = NoneVal

\* Python truthiness of a str-or-None
Falsy(v) == v = NoneVal \/ v = ""
\* `v or ""`
OrEmpty(v) == IF Falsy(v) THEN "" ELSE v
\* {k: v for k, v in d.items() if k not in ks}
Without(d, ks) == [k \in (DOMAIN d) \ ks |-> d[k]]

\* hashlib.sha256(s).hexdigest(), as an injective symbolic digest
sha256_hex(s) == "sha256:" \o s

(* ------------------------------ state --------------------------------- *)
VARIABLES
  backend,          \* TokenStore backend fixed by init(): "valkey" | "sqlite"
  jwt_exp_seconds,  \* Authenticator.jwt_exp_seconds
  now,              \* int(time.time())
  users,            \* MongoDataStore.users: the identity collection (set of docs)
  tokens,           \* TokenStore rows / keys: [jti, payload, expires_at]
  next_jti,         \* the next fresh uuid4
  task,             \* the request coroutines: position and locals of each
  last,             \* the call the latest step completed, with what its caller
                    \* got (NoLast when the step completed none)
  issued,           \* history: what authenticate has returned so far, and
                    \* whether TokenStore.delete was called with its jti since
  deleted_users,    \* MongoDataStore.deleted_users: the Deletion Records
  gate              \* init_services: `initialized`, `startup_lock` and its
                    \* callers, with the connections the stores have opened

vars == <<backend, jwt_exp_seconds, now, users, tokens, next_jti, task, last,
          issued, deleted_users, gate>>

NoReq == [op |-> "none"]

\* A coroutine: `attempt` is async_retry's counter, `calls` counts the
\* validator invocations of the current call, `ops` lists the backend
\* operations the current call has issued.
IdleTask ==
  [pc |-> "idle", req |-> NoReq, attempt |-> 0, calls |-> 0,
   info |-> << >>, existing |-> << >>, ops |-> << >>]

\* No call has completed in the latest step.
NoLast ==
  [req |-> NoReq, calls |-> 0, info |-> << >>, ops |-> << >>,
   status |-> "none", exc |-> "", msg |-> "", out |-> NoResult]

\* What a finished call gives its caller: a value, or an exception with its
\* message.
Returns(out)      == [status |-> "ok", exc |-> "", msg |-> "", out |-> out]
Raises(exc, msg)  == [status |-> "raised", exc |-> exc, msg |-> msg, out |-> NoResult]

InFlightAuth ==
  Cardinality({p \in Procs : task[p].req.op = "authenticate"})

(* ------------------------- MongoDataStore ----------------------------- *)
DocKeys == {"provider", "social_id", "social_token", "name", "email", "extra"}

\* get_user: find_one({"provider": ..., "social_id": ...})
get_user(coll, provider, social_id) ==
  {d \in coll : d.provider = provider /\ d.social_id = social_id}

\* upsert_user: the document built from the arguments
MakeDoc(provider, social_id, social_token, name, email, extra) ==
  [provider |-> provider, social_id |-> social_id,
   social_token |-> social_token,
   name |-> OrEmpty(name), email |-> OrEmpty(email), extra |-> extra]

\* A diff that reports every key as changed.
ChangedKeys_All(existing, doc) == DocKeys

\* upsert_user: the keys whose value differs from the stored document
ChangedKeys(existing, doc) ==
  {k \in DocKeys :
     IF k = "extra"
       THEN (IF k \in DOMAIN existing THEN existing[k] ELSE << >>) # doc[k]
       ELSE DictGet(existing, k) # doc[k]}

\* A blind overwrite: the whole document as `updates`.
Updates_WholeDoc(existing, doc) == doc

\* upsert_user: the `updates` dict handed to update_one as {"$set": updates}
Updates(existing, doc) == [k \in ChangedKeys(existing, doc) |-> doc[k]]

\* {"$set": updates} applied to one document / dict.update(updates)
ApplySet(d, updates) ==
  [k \in (DOMAIN d) \cup (DOMAIN updates) |->
     IF k \in DOMAIN updates THEN updates[k] ELSE d[k]]

\* An update_one that replaces the matching document by `updates`.
update_one_Replace(coll, provider, social_id, updates) ==
  {IF d.provider = provider /\ d.social_id = social_id
     THEN [k \in DocKeys |-> IF k \in DOMAIN updates THEN updates[k]
                              ELSE IF k \in {"provider", "social_id"}
                                     THEN d[k] ELSE ""]
     ELSE d : d \in coll}

\* update_one(filter, {"$set": updates}): patches the matching document,
\* matches nothing (and raises nothing) when there is none
update_one(coll, provider, social_id, updates) ==
  {IF d.provider = provider /\ d.social_id = social_id
     THEN ApplySet(d, updates) ELSE d : d \in coll}

(* ------------------------------- JWT ---------------------------------- *)
\* HMAC over the signing input, symbolically: it can be recomputed only
\* from the same key, algorithm and claims.
HmacSign(secret, algo, claims) == [key |-> secret, alg |-> algo, msg |-> claims]

\* An encoder that signs with another key than the one it is given.
jwt_encode_OtherKey(claims, secret, algo) ==
  [segments |-> 3, alg |-> algo, payload |-> claims,
   sig |-> [key |-> ForgedSecret, alg |-> algo, msg |-> claims]]

\* jwt.encode(claims, secret, algorithm=algo): header.payload.signature
jwt_encode(claims, secret, algo) ==
  [segments |-> 3, alg |-> algo, payload |-> claims,
   sig |-> HmacSign(secret, algo, claims)]

\* jwt.decode(token, secret, algorithms=[algo]) at time t: the payload, or
\* the exception PyJWT raises.
jwt_decode(token, secret, algo, t) ==
  IF token.segments # 3
    THEN [ok |-> FALSE, exc |-> "DecodeError"]
  ELSE IF token.alg # algo
    THEN [ok |-> FALSE, exc |-> "InvalidAlgorithmError"]
  ELSE IF token.sig # HmacSign(secret, algo, token.payload)
    THEN [ok |-> FALSE, exc |-> "InvalidSignatureError"]
  ELSE IF token.payload.exp <= t
    THEN [ok |-> FALSE, exc |-> "ExpiredSignatureError"]
  ELSE IF token.payload.iat > t
    THEN [ok |-> FALSE, exc |-> "ImmatureSignatureError"]
  ELSE [ok |-> TRUE, payload |-> token.payload]

\* PyJWT's exception hierarchy: the subclasses of jwt.InvalidTokenError
InvalidTokenErrors ==
  {"DecodeError", "InvalidAlgorithmError", "InvalidSignatureError",
   "ExpiredSignatureError", "ImmatureSignatureError"}

\* Only the first except clause.
VerifyCaught_ExpiredOnly == {"ExpiredSignatureError"}

\* verify_app_token: the exceptions its two except clauses catch
VerifyCaught == {"ExpiredSignatureError"} \cup InvalidTokenErrors

\* A verification that also asks for the Session Record of the token's jti.
verify_app_token_WithStore(token, t) ==
  LET r == jwt_decode(token, JwtSecret, JwtAlgo, t) IN
    IF r.ok /\ \E row \in tokens : row.jti = r.payload.jti
      THEN [status |-> "ok", exc |-> "", msg |-> "", out |-> r.payload]
      ELSE [status |-> "ok", exc |-> "", msg |-> "", out |-> NoResult]

\* verify_app_token(token) at time t
verify_app_token(token, t) ==
  LET r == jwt_decode(token, JwtSecret, JwtAlgo, t) IN
    IF r.ok THEN Returns(r.payload)
    ELSE IF r.exc \in VerifyCaught
      THEN Returns(NoResult)
      ELSE Raises(r.exc, "")

\* authenticate: the claims minted for (provider, uid) at time t
MakeClaims(provider, uid, social_token, jti, t, ttl) ==
  [iss |-> "auth_service", sub |-> provider \o ":" \o uid,
   provider |-> provider, uid |-> uid, iat |-> t, exp |-> t + ttl,
   jti |-> jti, st_hash |-> sha256_hex(social_token)]

\* A Session Record that keeps the provider token itself.
MakeStorePayload_RawToken(provider, uid, social_token, info, t, ttl) ==
  [provider |-> provider, uid |-> uid,
   st_hash |-> social_token,
   issued_at |-> t, expires_at |-> t + ttl,
   meta |-> Without(info, {"uid"})]

\* authenticate: the Session Record written under jti
MakeStorePayload(provider, uid, social_token, info, t, ttl) ==
  [provider |-> provider, uid |-> uid,
   st_hash |-> sha256_hex(social_token),
   issued_at |-> t, expires_at |-> t + ttl,
   meta |-> Without(info, {"uid"})]

\* Tokens a caller may present to verify: the ones it was given, tampered
\* copies of them, and a string that is no JWT at all.
Garbage ==
  [segments |-> 1, alg |-> "", payload |-> << >>, sig |-> << >>]

Tampered(tok) ==
  { [tok EXCEPT !.payload.uid = "43"],
    [tok EXCEPT !.payload.exp = MaxTime + MaxTTL + 1],
    [tok EXCEPT !.sig = HmacSign(ForgedSecret, tok.alg, tok.payload)],
    [tok EXCEPT !.alg = "none", !.sig = << >>] }

Presentable ==
  {i.app_token : i \in issued}
    \cup UNION {Tampered(i.app_token) : i \in issued}
    \cup {Garbage}

(* ---------------------------- TokenStore ------------------------------ *)
\* json.dumps / json.loads of a Session Record
json_dumps(payload) == [json |-> payload]
json_loads(text)    == text.json

RowsOf(rows, jti) == {r \in rows : r.jti = jti}

\* A set() that loses the row.
ts_put_Lost(rows, jti, payload, ttl, t) == rows

\* A set() whose row expires one second before its ttl is over.
ts_put_Early(rows, jti, payload, ttl, t) ==
  (rows \ RowsOf(rows, jti))
    \cup {[jti |-> jti, payload |-> json_dumps(payload),
           expires_at |-> t + ttl - 1]}

\* set(): REPLACE INTO tokens / SET key value EX ttl, issued at time t
ts_put(rows, jti, payload, ttl, t) ==
  (rows \ RowsOf(rows, jti))
    \cup {[jti |-> jti, payload |-> json_dumps(payload), expires_at |-> t + ttl]}

\* A get that already evicts in the second at which the row expires.
sqlite_expired_AtExpiry(row, t) == t >= row.expires_at

\* get() on the sqlite fallback: the row is expired once now > expires_at
sqlite_expired(row, t) == t > row.expires_at

\* cleanup_expired(): DELETE FROM tokens WHERE expires_at <= now
cleanup_matches(row, t) == row.expires_at <= t

\* valkey's native TTL: a key set with EX ttl is gone ttl seconds later
valkey_live(rows, t) == {r \in rows : r.expires_at > t}


(* ------------------------------ Init ---------------------------------- *)
Backends == {"valkey", "sqlite"}

\* The module globals of main.py when the process starts: the lock is free,
\* `initialized` is False and no store has opened a connection.
\* `startup_lock` is the FIFO of asyncio.Lock: its head holds the lock.
GateAtStartup ==
  [initialized |-> FALSE, startup_lock |-> << >>,
   pc |-> [c \in Procs |-> "idle"], calls |-> 0,
   ts_connections |-> 0, mongo_connections |-> 0]

\* The gate once lifespan's init_services() has returned.
GateOpen ==
  [GateAtStartup EXCEPT !.initialized = TRUE, !.calls = 1,
                        !.ts_connections = 1, !.mongo_connections = 1]

\* The state in which requests are served: startup has completed.
Init ==
  /\ backend \in Backends
  /\ jwt_exp_seconds \in TTLs
  /\ now = 0
  /\ users = {}
  /\ tokens = {}
  /\ next_jti = 1
  /\ task = [p \in Procs |-> IdleTask]
  /\ last = NoLast
  /\ issued = {}
  /\ deleted_users = {}
  /\ gate = GateOpen

\* The state of a process whose stores are not initialised yet.
InitStartup ==
  /\ backend \in Backends
  /\ jwt_exp_seconds \in TTLs
  /\ now = 0
  /\ users = {}
  /\ tokens = {}
  /\ next_jti = 1
  /\ task = [p \in Procs |-> IdleTask]
  /\ last = NoLast
  /\ issued = {}
  /\ deleted_users = {}
  /\ gate = GateAtStartup

\* The call in state t ends and its caller gets `outcome`.
Done(t, outcome) ==
  [req |-> t.req, calls |-> t.calls, info |-> t.info, ops |-> t.ops,
   status |-> outcome.status, exc |-> outcome.exc, msg |-> outcome.msg,
   out |-> outcome.out]

\* The call of coroutine p, in state t, ends: the coroutine is gone.
Finish(p, t, outcome) ==
  /\ last' = Done(t, outcome)
  /\ task' = [task EXCEPT ![p] = IdleTask]

\* The call of coroutine p goes on from the state t.
Continue(p, t) ==
  /\ last' = NoLast
  /\ task' = [task EXCEPT ![p] = t]

\* A call with the arguments req.
Call(req) == [IdleTask EXCEPT !.req = req]

\* verify_app_token (which awaits nothing) and a TokenStore operation called
\* by itself run to their end in one step, on no coroutine slot: the
\* statements of one TokenStore operation name one jti, and no other call
\* writes a row under a jti already handed out.
Atomic(t, outcome) ==
  /\ last' = Done(t, outcome)
  /\ UNCHANGED task

\* Coroutine slots are interchangeable: a new call takes the lowest free one.
FreeSlot(p) ==
  /\ task[p].pc = "idle"
  /\ \A q \in Procs : q < p => task[q].pc # "idle"

(* ------------------- Authenticator.authenticate ----------------------- *)
SupportedProviders == {"facebook", "twitter"}

\* A dispatch that sends every provider name to the facebook validator.
ValidatorFor_AnyProvider(provider) == "validate_facebook_token"

\* authenticate: the validator chosen for provider.lower(), None for the
\* `else` branch.
ValidatorFor(provider) ==
  IF Lower(provider) \in SupportedProviders
    THEN "validate_" \o Lower(provider) \o "_token"
    ELSE NoneVal

\* A retry loop that allows one more attempt than async_retry does.
RetryExhausted_OneMore(attempt) == attempt + 1 > MaxRetries + 1

\* async_retry: after a failed call, `attempt += 1; if attempt > retries: raise`
RetryExhausted(attempt) == attempt + 1 > MaxRetries

\* What a validator call can raise: its own ProviderValidationError, or an
\* error it does not wrap (a timeout).
ValidatorFailures == {"ProviderValidationError", "TimeoutError"}

Log(t, entry) == Append(t.ops, entry)

\* The document upsert_user builds for a task that holds a validator response.
TaskDoc(t) ==
  MakeDoc(Lower(t.req.provider), DictGet(t.info, "uid"), t.req.social_token,
          DictGet(t.info, "name"), DictGet(t.info, "email"),
          Without(t.info, {"uid", "name", "email"}))

\* An authenticate with an error kind of its own for unknown providers.
UnsupportedProvider_OwnKind(provider) ==
  [status |-> "raised", exc |-> "UnsupportedProvider",
   msg |-> "Unsupported provider: " \o provider, out |-> NoResult]

\* authenticate: the `else` branch of the provider dispatch,
\* `raise ProviderValidationError(f"Unsupported provider: {provider}")`.
UnsupportedProvider(provider) ==
  Raises("ProviderValidationError", "Unsupported provider: " \o provider)

\* authenticate(provider, social_token), up to the first validator call.
AuthStart(p, provider, social_token) ==
  LET t == Call([op |-> "authenticate", provider |-> provider,
                 social_token |-> social_token])
  IN
  /\ FreeSlot(p)
  /\ IF ValidatorFor(provider) # NoneVal
       THEN /\ next_jti + InFlightAuth <= MaxJti
            /\ Continue(p, [t EXCEPT !.pc = "validate"])
       ELSE Finish(p, t, UnsupportedProvider(Lower(provider)))
  /\ UNCHANGED <<gate, deleted_users, backend, jwt_exp_seconds, now, users, tokens, next_jti, issued>>

\* One invocation of validate_<provider>_token under async_retry that
\* raises exc.
ValidatorRaises(p, exc) ==
  LET t == [task[p] EXCEPT !.calls = @ + 1] IN
  /\ task[p].pc = "validate"
  /\ IF RetryExhausted(t.attempt)
       THEN Finish(p, t, Raises(exc, "validator"))
       ELSE Continue(p, [t EXCEPT !.attempt = @ + 1])
  /\ UNCHANGED <<gate, deleted_users, backend, jwt_exp_seconds, now, users, tokens, next_jti, issued>>

\* One invocation that returns the response info, and the uid check.
ValidatorReturns(p, info) ==
  LET t == [task[p] EXCEPT !.calls = @ + 1, !.info = info, !.attempt = 0] IN
  /\ task[p].pc = "validate"
  /\ IF Falsy(DictGet(info, "uid"))
       THEN Finish(p, t, Raises("ProviderValidationError",
                                "Provider response missing uid"))
       ELSE Continue(p, [t EXCEPT !.pc = "insert"])
  /\ UNCHANGED <<gate, deleted_users, backend, jwt_exp_seconds, now, users, tokens, next_jti, issued>>

\* A collection without the unique index: insert_one never conflicts.
DuplicateKey_NoIndex(coll, doc) == FALSE

\* The unique compound index on (provider, social_id) created by init:
\* insert_one raises DuplicateKeyError when the pair is already present.
DuplicateKey(coll, doc) ==
  \E d \in coll : d.provider = doc.provider /\ d.social_id = doc.social_id

\* upsert_user: users.insert_one(doc) under the unique (provider, social_id)
\* index.
UpsertInsert(p) ==
  LET t   == task[p]
      doc == TaskDoc(t)
      dup == DuplicateKey(users, doc)
      t1  == [t EXCEPT !.ops = Log(t, [op |-> "insert_one"])]
  IN
  /\ t.pc = "insert"
  /\ \/ /\ ~dup
        /\ users' = users \cup {doc}
        /\ Continue(p, [t1 EXCEPT !.pc = "mint"])
     \/ /\ dup
        /\ Continue(p, [t1 EXCEPT !.pc = "find"])
        /\ UNCHANGED users
     \/ \* a PyMongoError other than DuplicateKeyError
        /\ Finish(p, t1, Raises("Exception", "Database operation failed"))
        /\ UNCHANGED users
  /\ UNCHANGED <<gate, deleted_users, backend, jwt_exp_seconds, now, tokens, next_jti, issued>>

\* upsert_user after DuplicateKeyError: get_user, then the field diff.
UpsertFind(p) ==
  LET t     == task[p]
      doc   == TaskDoc(t)
      found == get_user(users, doc.provider, doc.social_id)
      t1    == [t EXCEPT !.ops = Log(t, [op |-> "find_one"])]
  IN
  /\ t.pc = "find"
  /\ \/ \E existing \in found :
          Continue(p, [t1 EXCEPT !.existing = existing,
                                 !.pc = IF ChangedKeys(existing, doc) # {}
                                          THEN "update" ELSE "mint"])
     \/ /\ found = {}
        /\ Finish(p, t1, Raises("Exception",
                                "Duplicate key but user not found in DB"))
     \/ Finish(p, t1, Raises("PyMongoError", "find_one"))
  /\ UNCHANGED <<gate, deleted_users, backend, jwt_exp_seconds, now, users, tokens, next_jti, issued>>

\* upsert_user: users.update_one(filter, {"$set": updates}).
UpsertUpdate(p) ==
  LET t       == task[p]
      doc     == TaskDoc(t)
      updates == Updates(t.existing, doc)
      t1      == [t EXCEPT !.ops =
                    Log(t, [op |-> "update_one", set |-> updates,
                            matched |-> get_user(users, doc.provider,
                                                 doc.social_id) # {}])]
  IN
  /\ t.pc = "update"
  /\ \/ /\ users' = update_one(users, doc.provider, doc.social_id, updates)
        /\ Continue(p, [t1 EXCEPT !.pc = "mint",
                                  !.existing = ApplySet(t.existing, updates)])
     \/ /\ Finish(p, t1, Raises("PyMongoError", "update_one"))
        /\ UNCHANGED users
  /\ UNCHANGED <<gate, deleted_users, backend, jwt_exp_seconds, now, tokens, next_jti, issued>>

\* TokenStore.set(jti, payload, ttl_seconds) called at time t: the outcomes
\* the backend can produce, each with the rows it leaves.  valkey rejects
\* SET ... EX with a non-positive expiry; a failed sqlite commit leaves the
\* REPLACEd row in the open connection.
TsSet(rows, jti, payload, ttl, t) ==
  IF backend = "valkey"
    THEN IF ttl <= 0
           THEN {[ok |-> FALSE, rows |-> rows]}
           ELSE {[ok |-> TRUE,  rows |-> ts_put(rows, jti, payload, ttl, t)],
                 [ok |-> FALSE, rows |-> rows]}
    ELSE {[ok |-> TRUE,  rows |-> ts_put(rows, jti, payload, ttl, t)],
          [ok |-> FALSE, rows |-> rows],
          [ok |-> FALSE, rows |-> ts_put(rows, jti, payload, ttl, t)]}

\* An authenticate that swallows the failure of token_store.set.
AuthResult_Swallow(set_ok, app_token, claims) ==
  [status |-> "ok", exc |-> "", msg |-> "",
   out |-> [app_token |-> app_token, claims |-> claims]]

\* authenticate: what the caller gets once token_store.set has returned
\* (set_ok) or raised TokenStoreError.
AuthResult(set_ok, app_token, claims) ==
  IF set_ok
    THEN Returns([app_token |-> app_token, claims |-> claims])
    ELSE Raises("TokenStoreError", "set")

\* The rows visible at time t: valkey drops keys whose EX has run out.
LiveRows(rows, t) == IF backend = "valkey" THEN valkey_live(rows, t) ELSE rows

\* authenticate, from `jti = str(uuid.uuid4())` to the return: claims,
\* jwt.encode, the Session Record and token_store.set.  The clock is read at
\* `now = int(time.time())` and again inside set(), at t2.
MintAndSet(p) ==
  LET t        == task[p]
      provider == Lower(t.req.provider)
      uid      == DictGet(t.info, "uid")
      jti      == next_jti
      claims   == MakeClaims(provider, uid, t.req.social_token, jti, now,
                             jwt_exp_seconds)
      app_token == jwt_encode(claims, JwtSecret, JwtAlgo)
      store_payload == MakeStorePayload(provider, uid, t.req.social_token,
                                        t.info, now, jwt_exp_seconds)
  IN
  /\ t.pc = "mint"
  /\ \E t2 \in {now, now + 1} :
       /\ t2 <= MaxTime
       /\ now' = t2
       /\ \E o \in TsSet(LiveRows(tokens, t2), jti, store_payload,
                         jwt_exp_seconds, t2) :
            LET res == AuthResult(o.ok, app_token, claims) IN
            /\ tokens' = o.rows
            /\ Finish(p, [t EXCEPT !.ops = Log(t, [op |-> "ts_set", jti |-> jti,
                                                   ttl |-> jwt_exp_seconds,
                                                   ok |-> o.ok])], res)
            /\ issued' = IF res.status = "ok"
                           THEN issued \cup
                                  {[app_token |-> res.out.app_token,
                                    claims |-> res.out.claims,
                                    expires_at |-> t2 + jwt_exp_seconds,
                                    deleted |-> FALSE]}
                           ELSE issued
  /\ next_jti' = next_jti + 1
  /\ UNCHANGED <<gate, deleted_users, backend, jwt_exp_seconds, users>>

(* ----------------- Authenticator.verify_app_token --------------------- *)
Verify(tok) ==
  /\ Atomic(Call([op |-> "verify", token |-> tok]), verify_app_token(tok, now))
  /\ UNCHANGED <<gate, deleted_users, backend, jwt_exp_seconds, now, users, tokens, next_jti, issued>>

(* -------------------- Authenticator.delete_user ----------------------- *)
Uids == {"42"}

\* TokenStore.delete(jti): outcomes and the rows each leaves.
TsDelete(rows, jti) ==
  IF backend = "valkey"
    THEN {[ok |-> TRUE,  rows |-> rows \ RowsOf(rows, jti)],
          [ok |-> FALSE, rows |-> rows]}
    ELSE {[ok |-> TRUE,  rows |-> rows \ RowsOf(rows, jti)],
          [ok |-> FALSE, rows |-> rows],
          [ok |-> FALSE, rows |-> rows \ RowsOf(rows, jti)]}

\* history: TokenStore.delete was called with these jtis
MarkDeleted(iss, jtis) ==
  {IF i.claims.jti \in jtis THEN [i EXCEPT !.deleted = TRUE] ELSE i : i \in iss}

\* A delete that reports a deletion whatever delete_one found.
mongo_delete_user_AlwaysTrue(coll, provider, social_id) == TRUE

\* MongoDataStore.delete_user: `return result.deleted_count > 0`
mongo_delete_user(coll, provider, social_id) ==
  Cardinality(get_user(coll, provider, social_id)) > 0

\* A delete_user that lets the failure of token_store.delete through.
DeleteUserResult_Propagate(delete_ok) ==
  IF delete_ok
    THEN [status |-> "ok", exc |-> "", msg |-> "", out |-> [value |-> TRUE]]
    ELSE [status |-> "raised", exc |-> "TokenStoreError", msg |-> "delete",
          out |-> NoResult]

\* delete_user: what the caller gets once token_store.delete has returned
\* (delete_ok) or raised: `except Exception: pass`, then `return True`.
DeleteUserResult(delete_ok) == Returns([value |-> TRUE])

\* delete_user(provider, uid, jti): mongo_store.delete_user and the check
\* of its result.
DeleteUserMongo(p, provider, uid, jti) ==
  LET t0    == Call([op |-> "delete_user", provider |-> provider, uid |-> uid,
                     jti |-> jti])
      t     == [t0 EXCEPT !.ops = <<[op |-> "delete_one"]>>]
      found == get_user(users, provider, uid)
  IN
  /\ FreeSlot(p)
  /\ \/ /\ users' = users \ found
        /\ IF mongo_delete_user(users, provider, uid)
             THEN Continue(p, [t EXCEPT !.pc = "ts_delete"])
             ELSE Finish(p, t, Raises("DataError",
                                      "User not found or already deleted"))
     \/ /\ Finish(p, t, Raises("DataError", "Failed to delete user"))
        /\ UNCHANGED users
  /\ UNCHANGED <<gate, deleted_users, backend, jwt_exp_seconds, now, tokens, next_jti, issued>>

\* delete_user: the best-effort token_store.delete(jti) and `return True`.
DeleteUserTokens(p) ==
  LET t == task[p] IN
  /\ t.pc = "ts_delete"
  /\ \E o \in TsDelete(tokens, t.req.jti) :
       /\ tokens' = o.rows
       /\ Finish(p, [t EXCEPT !.ops = Log(t, [op |-> "ts_delete", ok |-> o.ok])],
                 DeleteUserResult(o.ok))
  /\ issued' = MarkDeleted(issued, {t.req.jti})
  /\ UNCHANGED <<gate, deleted_users, backend, jwt_exp_seconds, now, users, next_jti>>

(* ------------------- TokenStore, called directly ---------------------- *)
\* TokenStore.get(jti) at time t: outcomes and the rows each leaves.  A
\* backend failure is wrapped under valkey and raw under sqlite.
TsGet(rows, jti, t) ==
  LET hit == RowsOf(rows, jti) IN
  {[res  |-> Raises(IF backend = "valkey" THEN "TokenStoreError"
                                           ELSE "sqlite3.Error", ""),
    rows |-> rows]}
  \cup
  (IF hit = {}
     THEN {[res |-> Returns(NoResult), rows |-> rows]}
     ELSE {IF backend = "sqlite" /\ sqlite_expired(row, t)
             THEN [res |-> Returns(NoResult), rows |-> rows \ hit]
             ELSE [res |-> Returns(json_loads(row.payload)), rows |-> rows]
           : row \in hit})

\* TokenStore.get(jti)
StoreGet(jti) ==
  /\ \E o \in TsGet(tokens, jti, now) :
       /\ tokens' = o.rows
       /\ Atomic(Call([op |-> "get", jti |-> jti]), o.res)
  /\ UNCHANGED <<gate, deleted_users, backend, jwt_exp_seconds, now, users, next_jti, issued>>

\* TokenStore.delete(jti)
StoreDelete(jti) ==
  LET t == Call([op |-> "delete", jti |-> jti]) IN
  /\ \E o \in TsDelete(tokens, jti) :
       /\ tokens' = o.rows
       /\ Atomic(t, IF o.ok THEN Returns(NoResult)
                               ELSE Raises("TokenStoreError", ""))
  /\ issued' = MarkDeleted(issued, {jti})
  /\ UNCHANGED <<gate, deleted_users, backend, jwt_exp_seconds, now, users, next_jti>>

\* TokenStore.cleanup_expired()
StoreCleanupExpired ==
  LET t == Call([op |-> "cleanup_expired"]) IN
  /\ IF backend = "valkey"
       THEN /\ Atomic(t, Returns(NoResult))
            /\ UNCHANGED tokens
       ELSE \/ /\ tokens' = {r \in tokens : ~cleanup_matches(r, now)}
               /\ Atomic(t, Returns(NoResult))
            \/ /\ Atomic(t, Raises("TokenStoreError", ""))
               /\ UNCHANGED tokens
  /\ UNCHANGED <<gate, deleted_users, backend, jwt_exp_seconds, now, users, next_jti, issued>>

\* A scan that matches on the uid alone.
UserRows_ByUid(rows, provider, uid) ==
  {r \in rows : DictGet(json_loads(r.payload), "uid") = uid}

\* cleanup_user: the rows whose payload embeds (provider, uid)
UserRows(rows, provider, uid) ==
  {r \in rows : /\ DictGet(json_loads(r.payload), "provider") = provider
                /\ DictGet(json_loads(r.payload), "uid") = uid}

\* TokenStore.cleanup_user(provider, uid)
StoreCleanupUser(provider, uid) ==
  LET t         == Call([op |-> "cleanup_user", provider |-> provider,
                         uid |-> uid])
      to_delete == UserRows(tokens, provider, uid)
  IN
  /\ IF backend = "valkey"
       THEN /\ Atomic(t, Returns(NoResult))
            /\ UNCHANGED <<tokens, issued>>
       ELSE \/ \* every self.delete(jti) succeeds
               /\ tokens' = tokens \ to_delete
               /\ issued' = MarkDeleted(issued, {r.jti : r \in to_delete})
               /\ Atomic(t, Returns(NoResult))
            \/ \* the SELECT fails
               /\ Atomic(t, Raises("TokenStoreError", ""))
               /\ UNCHANGED <<tokens, issued>>
            \/ \* some deletes succeed, then one fails
               \E done \in SUBSET to_delete : \E bad \in to_delete \ done :
                 /\ tokens' = tokens \ done
                 /\ issued' = MarkDeleted(issued, {r.jti : r \in done \cup {bad}})
                 /\ Atomic(t, Raises("TokenStoreError", ""))
  /\ UNCHANGED <<gate, deleted_users, backend, jwt_exp_seconds, now, users, next_jti>>

(* ------------------------ main.py: GET /get_user --------------------- *)
\* raise HTTPException(status_code=code, detail=detail)
HTTPException(code, detail) ==
  [status |-> "raised", exc |-> "HTTPException", msg |-> detail,
   out |-> [status_code |-> code]]

\* The Authorization headers a client may send: none, one of another
\* scheme, "Bearer " with nothing after it, "Bearer <token>".
Authorizations ==
  {[scheme |-> "none"], [scheme |-> "Basic"], [scheme |-> "Bearer", empty |-> TRUE]}
    \cup {[scheme |-> "Bearer", empty |-> FALSE, token |-> tok] : tok \in Presentable}

\* get_user: the body of its try block.  claims["provider"] is evaluated
\* before `if not claims`, so a None from verify_app_token raises
\* TypeError; find_ok tells whether mongo_store.get_user returned.
get_user_try(app_token, t, coll, find_ok) ==
  LET v == verify_app_token(app_token, t) IN
  IF v.status # "ok" THEN v
  ELSE IF v.out = NoResult
    THEN Raises("TypeError", "'NoneType' object is not subscriptable")
  ELSE IF ~find_ok
    THEN Raises("PyMongoError", "find_one")
  ELSE IF get_user(coll, v.out.provider, v.out.uid) = {}
    THEN HTTPException(404, "User not found")
  ELSE Returns([status_code |-> 200,
                claims |-> CHOOSE d \in get_user(coll, v.out.provider,
                                                 v.out.uid) : TRUE])

\* get_user: the store operations its try block issues, mongo_store.get_user
\* once verify_app_token has returned claims.
get_user_ops(app_token, t, find_ok) ==
  LET v == verify_app_token(app_token, t) IN
  IF v.status = "ok" /\ v.out # NoResult
    THEN <<[op |-> "find_one", ok |-> find_ok]>>
    ELSE << >>

\* get_user: its two except clauses, `except TokenStoreError` and
\* `except Exception` (HTTPException is an Exception).
get_user_except(res) ==
  IF res.status # "raised" THEN res
  ELSE IF res.exc = "TokenStoreError"
    THEN HTTPException(500, "Token store error")
    ELSE HTTPException(500, "Internal server error")

\* GET /get_user with the header `authorization`
GetUser(authorization) ==
  LET t == Call([op |-> "get_user", authorization |-> authorization]) IN
  /\ IF authorization.scheme = "none"
       THEN Atomic(t, HTTPException(401, "Missing Authorization header"))
     ELSE IF authorization.scheme # "Bearer"
       THEN Atomic(t, HTTPException(401, "Invalid Authorization header format"))
     ELSE IF authorization.empty
       THEN Atomic(t, HTTPException(401, "App token missing"))
     ELSE \E find_ok \in BOOLEAN :
            Atomic([t EXCEPT !.ops = get_user_ops(authorization.token, now,
                                                  find_ok)],
                   get_user_except(get_user_try(authorization.token, now,
                                                users, find_ok)))
  /\ UNCHANGED <<gate, deleted_users, backend, jwt_exp_seconds, now, users,
                 tokens, next_jti, issued>>

(* ------------------- MongoDataStore.upsert_deletion ------------------- *)
ConfirmationCodes == {"c1", "c2"}
DeletionStatuses == {"pending"}

\* update_one({provider, social_id}, {"$set": doc}, upsert=True) on the
\* deleted_users collection.
upsert_one(coll, doc) ==
  {d \in coll : ~(d.provider = doc.provider /\ d.social_id = doc.social_id)}
    \cup {doc}

\* MongoDataStore.upsert_deletion(provider, social_id, cnf, status)
UpsertDeletion(provider, social_id, cnf, status) ==
  LET t   == Call([op |-> "upsert_deletion", provider |-> provider,
                   uid |-> social_id, cnf |-> cnf])
      doc == [provider |-> provider, social_id |-> social_id,
              confirmation_code |-> cnf, status |-> status, timestamp |-> now]
  IN
  /\ \/ /\ deleted_users' = upsert_one(deleted_users, doc)
        /\ Atomic(t, Returns(NoResult))
     \/ /\ Atomic(t, Raises("DataError",
                            "Database error while saving deletion record"))
        /\ UNCHANGED deleted_users
  /\ UNCHANGED <<gate, backend, jwt_exp_seconds, now, users, tokens, next_jti,
                 issued>>

(* --------------------------- init_services ---------------------------- *)
\* A caller leaves `async with startup_lock`: the lock goes to the next
\* waiter.
Release(g, c) == [g EXCEPT !.startup_lock = Tail(@), !.pc[c] = "idle"]

\* init_services() is called: the caller queues for startup_lock.
GateEnter(c) ==
  /\ gate.pc[c] = "idle"
  /\ gate.calls < MaxInits
  /\ gate' = [gate EXCEPT !.startup_lock = Append(@, c), !.pc[c] = "acquire",
                          !.calls = @ + 1]
  /\ last' = NoLast
  /\ UNCHANGED <<deleted_users, backend, jwt_exp_seconds, now, users, tokens,
                 next_jti, task, issued>>

\* The caller holds startup_lock and tests `if not initialized`.
GateAcquire(c) ==
  /\ gate.pc[c] = "acquire"
  /\ Head(gate.startup_lock) = c
  /\ IF gate.initialized
       THEN /\ gate' = Release(gate, c)
            /\ last' = Done(Call([op |-> "init_services", caller |-> c]),
                            Returns(NoResult))
       ELSE /\ gate' = [gate EXCEPT !.pc[c] = "ts_init"]
            /\ last' = NoLast
  /\ UNCHANGED <<deleted_users, backend, jwt_exp_seconds, now, users, tokens,
                 next_jti, task, issued>>

\* await token_store.init(): the store opens its connection, or raises.
GateTokenStoreInit(c) ==
  /\ gate.pc[c] = "ts_init"
  /\ \/ /\ gate' = [gate EXCEPT !.pc[c] = "mongo_init",
                                 !.ts_connections = @ + 1]
        /\ last' = NoLast
     \/ /\ gate' = Release(gate, c)
        /\ last' = Done(Call([op |-> "init_services", caller |-> c]),
                        Raises("Exception", "token_store.init"))
  /\ UNCHANGED <<deleted_users, backend, jwt_exp_seconds, now, users, tokens,
                 next_jti, task, issued>>

\* await mongo_store.init(), then `initialized = True`; or init raises.
GateMongoInit(c) ==
  /\ gate.pc[c] = "mongo_init"
  /\ \/ /\ gate' = [Release(gate, c) EXCEPT !.initialized = TRUE,
                                             !.mongo_connections = @ + 1]
        /\ last' = Done(Call([op |-> "init_services", caller |-> c]),
                        Returns(NoResult))
     \/ /\ gate' = Release(gate, c)
        /\ last' = Done(Call([op |-> "init_services", caller |-> c]),
                        Raises("Exception", "mongo_store.init"))
  /\ UNCHANGED <<deleted_users, backend, jwt_exp_seconds, now, users, tokens,
                 next_jti, task, issued>>

(* ------------------------------ clock --------------------------------- *)
Tick ==
  /\ now < MaxTime
  /\ now' = now + 1
  /\ tokens' = LiveRows(tokens, now + 1)
  /\ last' = NoLast
  /\ UNCHANGED <<gate, deleted_users, backend, jwt_exp_seconds, users, next_jti, task, issued>>

(* ------------------------------ Next ---------------------------------- *)
\* authenticate on the coroutine slots procs, with the provider names and
\* raw tokens callers send and the responses the validator gives.
Authenticate(procs, providers, social_tokens, infos) ==
  \/ \E p \in procs, provider \in providers, tok \in social_tokens :
       AuthStart(p, provider, tok)
  \/ \E p \in procs, exc \in ValidatorFailures : ValidatorRaises(p, exc)
  \/ \E p \in procs, info \in infos : ValidatorReturns(p, info)
  \/ \E p \in procs : UpsertInsert(p)
  \/ \E p \in procs : UpsertFind(p)
  \/ \E p \in procs : UpsertUpdate(p)
  \/ \E p \in procs : MintAndSet(p)

\* delete_user on the coroutine slots procs.
Revoke(procs, providers) ==
  \/ \E p \in procs, provider \in providers, uid \in Uids, jti \in Jtis :
       DeleteUserMongo(p, provider, uid, jti)
  \/ \E p \in procs : DeleteUserTokens(p)

\* The TokenStore operations, called directly.
StoreOps(providers) ==
  \/ \E jti \in Jtis : StoreGet(jti)
  \/ \E jti \in Jtis : StoreDelete(jti)
  \/ StoreCleanupExpired
  \/ \E provider \in providers, uid \in Uids : StoreCleanupUser(provider, uid)

\* The session lifecycle: one identity at the provider, whose e-mail
\* address may be withheld from one login to the next.
LifecycleProviders == {"facebook"}
LifecycleTokens == {"tok1"}
LifecycleInfos ==
  { [uid |-> "42", name |-> "Alice", email |-> "a@x"],
    [uid |-> "42", name |-> "Alice"],
    [name |-> "Alice", email |-> "a@x"],
    [uid |-> "",   name |-> "Alice", email |-> "a@x"] }

\* Concurrent authenticate and delete_user calls.
NextAuth ==
  \/ Authenticate(Procs, ProviderInputs, LifecycleTokens, LifecycleInfos)
  \/ Revoke(Procs, LifecycleProviders)
  \/ Tick

SpecAuth == Init /\ [][NextAuth]_vars

\* One authenticate or delete_user call at a time, and every TokenStore
\* operation between any two of its steps.
NextStore ==
  \/ Authenticate({1}, ProviderInputs, LifecycleTokens, LifecycleInfos)
  \/ Revoke({1}, LifecycleProviders)
  \/ StoreOps(LifecycleProviders)
  \/ Tick

SpecStore == Init /\ [][NextStore]_vars

\* One authenticate or delete_user call at a time, and verification of every
\* presentable token between any two of its steps.
NextVerify ==
  \/ Authenticate({1}, ProviderInputs, LifecycleTokens, LifecycleInfos)
  \/ Revoke({1}, LifecycleProviders)
  \/ \E tok \in Presentable : Verify(tok)
  \/ Tick

SpecVerify == Init /\ [][NextVerify]_vars

\* Successive logins of one identity whose profile and raw token change
\* from login to login.
NextUpsert ==
  \/ Authenticate({1}, LifecycleProviders, SocialTokens, Infos)
  \/ Revoke({1}, LifecycleProviders)

SpecUpsert == Init /\ [][NextUpsert]_vars

\* Sessions of several identities (two providers, two users) and
\* cleanup_user for each of them, and for identities without sessions.
CleanupProviders == {"facebook", "twitter"}
CleanupUids == {"42", "43"}
CleanupInfos ==
  { [uid |-> "42", name |-> "Alice", email |-> "a@x"],
    [uid |-> "42", name |-> "Alice"],
    [uid |-> "43", name |-> "Bob"] }

NextCleanup ==
  \/ Authenticate({1}, CleanupProviders, LifecycleTokens, CleanupInfos)
  \/ \E provider \in CleanupProviders, uid \in CleanupUids :
       StoreCleanupUser(provider, uid)
  \/ Tick

SpecCleanup == Init /\ [][NextCleanup]_vars

\* Deletion requests recorded by upsert_deletion next to delete_user calls.
NextDeletion ==
  \/ Authenticate({1}, LifecycleProviders, LifecycleTokens, LifecycleInfos)
  \/ Revoke({1}, LifecycleProviders)
  \/ \E provider \in LifecycleProviders, uid \in Uids,
        cnf \in ConfirmationCodes, status \in DeletionStatuses :
       UpsertDeletion(provider, uid, cnf, status)
  \/ Tick

SpecDeletion == Init /\ [][NextDeletion]_vars

\* Concurrent and successive calls of init_services from process start.
NextInit ==
  \/ \E c \in Procs : GateEnter(c)
  \/ \E c \in Procs : GateAcquire(c)
  \/ \E c \in Procs : GateTokenStoreInit(c)
  \/ \E c \in Procs : GateMongoInit(c)

SpecInit == InitStartup /\ [][NextInit]_vars

\* A service started over a collection that already holds the record of
\* one identity (its earlier sessions have expired and were swept).
InitExisting ==
  /\ backend \in Backends
  /\ jwt_exp_seconds \in TTLs
  /\ now = 0
  /\ users = {MakeDoc("facebook", "42", "tok1", "Alice", "a@x", << >>)}
  /\ tokens = {}
  /\ next_jti = 1
  /\ task = [p \in Procs |-> IdleTask]
  /\ last = NoLast
  /\ issued = {}
  /\ deleted_users = {}
  /\ gate = GateOpen

\* The profile the provider reports for the identity changes between two
\* logins that run concurrently.
RaceInfos ==
  { [uid |-> "42", name |-> "Alice", email |-> "a@x"],
    [uid |-> "42", name |-> "Bob",   email |-> "a@x"],
    [uid |-> "42", name |-> "Alice"],
    [uid |-> "42", name |-> "Bob", scopes |-> "email"] }

\* Two concurrent upserts of one existing identity.
NextRace ==
  Authenticate(Procs, LifecycleProviders, SocialTokens, RaceInfos)

SpecRace == InitExisting /\ [][NextRace]_vars

\* One authenticate or delete_user call at a time, and GET /get_user with
\* every header a client may send between any two of its steps.
NextGetUser ==
  \/ Authenticate({1}, ProviderInputs, LifecycleTokens, LifecycleInfos)
  \/ Revoke({1}, LifecycleProviders)
  \/ \E authorization \in Authorizations : GetUser(authorization)
  \/ Tick

SpecGetUser == Init /\ [][NextGetUser]_vars

\* The sqlite fallback with a session lifetime long enough for the clock to
\* move between minting and set while the token is still valid.
InitSqlite ==
  /\ backend = "sqlite"
  /\ jwt_exp_seconds = MaxTTL + 1
  /\ now = 0
  /\ users = {}
  /\ tokens = {}
  /\ next_jti = 1
  /\ task = [p \in Procs |-> IdleTask]
  /\ last = NoLast
  /\ issued = {}
  /\ deleted_users = {}
  /\ gate = GateOpen

SpecExpiry == InitSqlite /\ [][NextStore]_vars

\* Sessions of two identities (one user id at two providers), and
\* delete_user for either identity with any jti.
NextRevoke ==
  \/ Authenticate({1}, CleanupProviders, LifecycleTokens, LifecycleInfos)
  \/ Revoke({1}, CleanupProviders)
  \/ Tick

SpecRevoke == Init /\ [][NextRevoke]_vars

(* ============================ properties ============================== *)
\* The latest step completed a call of operation op.
Completed(op) == last.req.op = op /\ last.status # "none"

\* The entries of an operation log that name the operation op.
OpsNamed(ops, op) == {k \in 1..Len(ops) : ops[k].op = op}

\* C1: whenever authenticate returns a signed token the store holds exactly
\* one Session Record under the token's jti; as long as the TTL of that
\* record has not elapsed and TokenStore.delete has not been called with the
\* jti, the record is still the only one under the jti and every get(jti)
\* that does not fail returns it; so no returned token lacks a record at the
\* time it is returned.
C1_RecordBacksToken ==
  /\ (Completed("authenticate") /\ last.status = "ok") =>
        Cardinality(RowsOf(tokens, last.out.claims.jti)) = 1
  /\ \A i \in issued :
        (~i.deleted /\ now < i.expires_at) =>
          /\ Cardinality(RowsOf(tokens, i.claims.jti)) = 1
          /\ \A o \in TsGet(tokens, i.claims.jti, now) :
                o.res.status = "ok" =>
                  /\ o.res.out # NoResult
                  /\ o.res.out.provider = i.claims.provider
                  /\ o.res.out.uid = i.claims.uid
                  /\ o.res.out.st_hash = i.claims.st_hash
                  /\ o.rows = tokens

\* C1 witness: some time after its issue, with a second session issued
\* since, get(jti) has just returned the record of a token.
C1_Witness ==
  /\ Completed("get") /\ last.status = "ok" /\ last.out # NoResult
  /\ Cardinality(issued) = 2
  /\ \E i \in issued :
        /\ i.claims.jti = last.req.jti
        /\ ~i.deleted
        /\ i.claims.iat < now /\ now < i.expires_at

\* C2: when token_store.set fails during authenticate, on either backend,
\* authenticate raises TokenStoreError and hands no token to its caller.
C2_SetFailureFailsAuthenticate ==
  (Completed("authenticate") /\
     \E k \in OpsNamed(last.ops, "ts_set") : ~last.ops[k].ok) =>
    /\ last.status = "raised"
    /\ last.exc = "TokenStoreError"
    /\ last.out = NoResult
    /\ \A k \in OpsNamed(last.ops, "ts_set") :
         \A i \in issued : i.claims.jti # last.ops[k].jti

\* C2 witness: set has failed under sqlite after validation and upsert had
\* succeeded, and authenticate has raised.
C2_Witness ==
  /\ Completed("authenticate")
  /\ backend = "sqlite"
  /\ last.status = "raised"
  /\ \E k \in OpsNamed(last.ops, "ts_set") : ~last.ops[k].ok
  /\ users # {}

\* C3: authenticate with a provider name that is neither facebook nor
\* twitter once lowercased fails in its first step: no validator call, no
\* backend operation, and both stores as they were.
C3_UnsupportedProviderTouchesNothing ==
  [][ (last'.req.op = "authenticate" /\ last'.status # "none"
         /\ Lower(last'.req.provider) \notin {"facebook", "twitter"}) =>
        /\ last'.status = "raised"
        /\ last'.calls = 0
        /\ last'.ops = << >>
        /\ users' = users
        /\ tokens' = tokens ]_vars

\* C3 witness: "linkedin" has been refused while the stores held an
\* Identity Record and a Session Record.
C3_Witness ==
  /\ Completed("authenticate")
  /\ last.req.provider = "linkedin"
  /\ last.status = "raised"
  /\ users # {} /\ tokens # {}

C5_MissingUidWritesNothing ==
  [][ (last'.req.op = "authenticate" /\ last'.status # "none"
         /\ last'.info # << >>
         /\ (IF "uid" \in DOMAIN last'.info THEN last'.info.uid = ""
                                            ELSE TRUE)) =>
        /\ last'.status = "raised"
        /\ last'.exc = "ProviderValidationError"
        /\ last'.msg = "Provider response missing uid"
        /\ last'.ops = << >>
        /\ users' = users
        /\ tokens' = tokens ]_vars

\* C5 witness: a response with an empty uid has been refused, after a
\* failed first attempt, while the stores held records.
C5_Witness ==
  /\ Completed("authenticate")
  /\ last.info # << >>
  /\ "uid" \in DOMAIN last.info /\ last.info.uid = ""
  /\ last.calls = 2
  /\ users # {} /\ tokens # {}

\* The fields upsert_user compares with the stored document and may patch.
PatchableKeys == {"social_token", "name", "email", "extra"}

\* C6: two authenticate calls never return the same jti, and upsert_user
\* issues an update only when social_token, name, email or extra differs
\* from the stored document: a second call with the same raw token and an
\* identical validator response writes nothing to the Identity Record.
C6_NoWriteWithoutDifference ==
  /\ \A i, j \in issued : i.claims.jti = j.claims.jti => i = j
  /\ \A p \in Procs :
        task[p].pc = "update" =>
          \E k \in PatchableKeys : task[p].existing[k] # TaskDoc(task[p])[k]
  /\ Completed("authenticate") =>
        \A k \in OpsNamed(last.ops, "update_one") : last.ops[k].set # << >>

\* C6 witness: a second login with the same raw token and the same response
\* has returned a second token after insert_one and find_one, without any
\* update_one.
C6_Witness ==
  /\ Completed("authenticate") /\ last.status = "ok"
  /\ OpsNamed(last.ops, "find_one") # {}
  /\ OpsNamed(last.ops, "update_one") = {}
  /\ Cardinality({i.claims.jti : i \in issued}) = 2

\* C7: the update upsert_user sends for an existing Identity Record sets
\* exactly the fields among social_token, name, email, extra that differ
\* from the stored document, each to its new value (one field when one
\* differs); provider, social_id and the unchanged fields are not in the
\* update and the stored document keeps their values.
C7_OnlyChangedFieldsPatched ==
  [][ \A p \in Procs :
        (task[p].pc = "update" /\ task'[p].pc = "mint") =>
          LET want == TaskDoc(task[p])
              sent == task'[p].ops[Len(task'[p].ops)].set
              diff == {k \in PatchableKeys : task[p].existing[k] # want[k]}
          IN
          /\ DOMAIN sent = diff
          /\ \A k \in diff : sent[k] = want[k]
          /\ \A d \in get_user(users, want.provider, want.social_id) :
                \E d2 \in users' :
                  \A k \in DocKeys :
                    d2[k] = IF k \in diff THEN want[k] ELSE d[k] ]_vars

\* C7 witness: only the e-mail address differed, and update_one has been
\* sent with the e-mail address alone.
C7_Witness ==
  /\ task[1].pc = "mint"
  /\ \E k \in OpsNamed(task[1].ops, "update_one") :
        DOMAIN task[1].ops[k].set = {"email"}

\* The claims verify_app_token returns are those of the token `claims`.
SameSubject(v, claims) ==
  /\ v.status = "ok"
  /\ v.out # NoResult
  /\ v.out.sub = claims.sub
  /\ v.out.jti = claims.jti
  /\ v.out.uid = claims.uid

\* C8 (as the code has it): with a positive configured lifetime the token
\* authenticate returns is unexpired in the second it was minted, and
\* verify_app_token, called on a returned token at any time before its exp,
\* returns claims with the sub, jti and uid authenticate returned.
C8_RoundTripWhileUnexpired ==
  /\ (Completed("authenticate") /\ last.status = "ok") =>
        /\ (jwt_exp_seconds > 0 /\ now = last.out.claims.iat) =>
              now < last.out.claims.exp
        /\ now < last.out.claims.exp =>
              SameSubject(verify_app_token(last.out.app_token, now),
                          last.out.claims)
  /\ Completed("verify") =>
        \A i \in issued :
          (i.app_token = last.req.token /\ now < i.claims.exp) =>
            SameSubject(last, i.claims)

\* C8 witness: a token has been verified in the second it was minted and
\* its claims came back.
C8_Witness ==
  /\ Completed("verify") /\ last.out # NoResult
  /\ \E i \in issued :
        /\ i.app_token = last.req.token
        /\ now = i.claims.iat
        /\ SameSubject(last, i.claims)

\* C8 as stated: for every configured lifetime, verifying the returned
\* token in the second it was minted gives back its sub, jti and uid.
C8_RoundTripEveryLifetime ==
  (Completed("authenticate") /\ last.status = "ok"
     /\ now = last.out.claims.iat) =>
    SameSubject(verify_app_token(last.out.app_token, now), last.out.claims)

\* C9: verify_app_token raises for no token a caller can present, expired,
\* tampered or malformed; it returns claims only for a three-segment token
\* of the configured algorithm whose signature is the one the configured
\* secret gives and whose exp lies ahead, and then the token's own claims.
C9_VerifyNeverRaises ==
  /\ \A tok \in Presentable :
        LET v == verify_app_token(tok, now) IN
        /\ v.status = "ok"
        /\ v.out # NoResult =>
              /\ tok.segments = 3
              /\ tok.alg = JwtAlgo
              /\ tok.sig = [key |-> JwtSecret, alg |-> JwtAlgo,
                            msg |-> tok.payload]
              /\ now < tok.payload.exp
              /\ v.out = tok.payload
  /\ Completed("verify") => (last.status = "ok" /\ last.exc = "")

\* C9 witness: a token re-headed to the algorithm "none" has been verified
\* and the result was None.
C9_Witness ==
  /\ Completed("verify")
  /\ last.req.token.alg = "none"
  /\ last.status = "ok"
  /\ last.out = NoResult

\* C10: what verify_app_token returns for a token authenticate issued is
\* fixed by the token and the clock alone, its claims before exp and None
\* from exp on, whatever the two stores hold; in particular a token whose
\* Session Record is gone still verifies before its exp while every get(jti)
\* that does not fail reports None.
C10_VerifyIgnoresStores ==
  \A i \in issued :
    /\ verify_app_token(i.app_token, now) =
          IF now < i.claims.exp THEN Returns(i.claims) ELSE Returns(NoResult)
    /\ RowsOf(tokens, i.claims.jti) = {} =>
          \A o \in TsGet(tokens, i.claims.jti, now) :
            o.res.status = "ok" => o.res.out = NoResult

\* C10 witness: after delete_user removed the Identity Record and the
\* Session Record, the token has been verified and its claims came back.
C10_Witness ==
  /\ Completed("verify") /\ last.out # NoResult
  /\ users = {}
  /\ \E i \in issued :
        /\ i.app_token = last.req.token
        /\ i.deleted
        /\ RowsOf(tokens, i.claims.jti) = {}
        /\ last.out = i.claims

\* C11: delete_user for a (provider, uid) that has no Identity Record
\* raises DataError in its first step, whether or not a Session Record
\* exists under the jti it was given, and leaves the token store (and the
\* identity collection) as it was.
C11_RevokeOfUnknownIdentityFails ==
  [][ /\ (last'.req.op = "delete_user" /\ last'.status # "none"
           /\ Len(last'.ops) = 1
           /\ \A d \in users : ~(d.provider = last'.req.provider
                                   /\ d.social_id = last'.req.uid)) =>
          /\ last'.status = "raised"
          /\ last'.exc = "DataError"
          /\ tokens' = tokens
          /\ users' = users
      /\ \A p \in Procs :
           (task[p].pc = "idle" /\ task'[p].pc = "ts_delete") =>
             \E d \in users : /\ d.provider = task'[p].req.provider
                              /\ d.social_id = task'[p].req.uid ]_vars

\* C11 witness: delete_user has failed for an identity without a record
\* while an unexpired Session Record sits under the jti it named.
C11_Witness ==
  /\ Completed("delete_user")
  /\ last.status = "raised"
  /\ last.msg = "User not found or already deleted"
  /\ \E r \in tokens : r.jti = last.req.jti /\ now < r.expires_at

\* C12: once delete_user has removed the Identity Record, the record is
\* gone in that very step and the call returns True whatever
\* token_store.delete does: a failure of the session-store delete never
\* reaches the caller.
C12_RevokeSwallowsStoreFailure ==
  [][ /\ \A p \in Procs :
           (task[p].pc = "idle" /\ task'[p].pc = "ts_delete") =>
             \A d \in users' : ~(d.provider = task'[p].req.provider
                                  /\ d.social_id = task'[p].req.uid)
      /\ (last'.req.op = "delete_user" /\ last'.status # "none"
            /\ Len(last'.ops) = 2) =>
           /\ last'.status = "ok"
           /\ last'.out = [value |-> TRUE] ]_vars

\* C12 witness: delete_user has returned True although token_store.delete
\* failed and left the Session Record in place.
C12_Witness ==
  /\ Completed("delete_user")
  /\ last.status = "ok"
  /\ Len(last.ops) = 2 /\ ~last.ops[2].ok
  /\ \E r \in tokens : r.jti = last.req.jti
  /\ users = {}

\* C13: under the sqlite backend a get(jti) that returns normally evicts
\* and reports not-found exactly when the clock is past the row's
\* expires_at; up to and including expires_at it returns the stored
\* payload and removes nothing.
C13_ReadTriggersEviction ==
  [][ (last'.req.op = "get" /\ last'.status = "ok" /\ backend = "sqlite") =>
        \A r \in tokens :
          r.jti = last'.req.jti =>
            IF now > r.expires_at
              THEN /\ last'.out = NoResult
                   /\ tokens' = tokens \ {r}
              ELSE /\ last'.out = r.payload.json
                   /\ tokens' = tokens ]_vars

\* C13 witness: a get under sqlite has just answered not-found for an
\* issued, never deleted token whose expires_at has passed, and the row is
\* no longer in the table.
C13_Witness ==
  /\ backend = "sqlite"
  /\ Completed("get")
  /\ last.status = "ok" /\ last.out = NoResult
  /\ \E i \in issued : /\ i.claims.jti = last.req.jti
                        /\ ~i.deleted
                        /\ now > i.expires_at
  /\ \A r \in tokens : r.jti # last.req.jti

\* C17: in every reachable state the identity collection holds at most one
\* record per (provider, social_id), whatever the interleaving of
\* concurrent authenticate and delete_user calls.
C17_OneRecordPerIdentity ==
  \A d1, d2 \in users :
    (d1.provider = d2.provider /\ d1.social_id = d2.social_id) => d1 = d2

\* C17 witness: two authenticate calls for the same identity raced with
\* different profile data; one has inserted its record, the other's
\* insert_one met DuplicateKeyError and the collection holds one record.
C17_Witness ==
  \E p, q \in Procs :
    /\ p # q
    /\ task[p].pc = "find"
    /\ task[q].pc = "mint"
    /\ Len(task[q].ops) = 1 /\ task[q].ops[1].op = "insert_one"
    /\ TaskDoc(task[p]) # TaskDoc(task[q])
    /\ users = {TaskDoc(task[q])}

\* C20: every authenticate that returns has claims with
\* sub = "<lowercased provider>:<uid>", exp = iat + jwt_exp_seconds and
\* st_hash = sha256 of the raw token; the Session Record under the jti has
\* the same provider, uid and st_hash, issued_at = iat, expires_at = exp,
\* and was set with ttl = exp - iat; no field the call wrote into the
\* claims or the record is the raw provider token.
C20_ClaimsAndRecordAgree ==
  (Completed("authenticate") /\ last.status = "ok") =>
    LET c    == last.out.claims
        raw  == last.req.social_token
        uid  == last.info.uid
        set  == last.ops[Len(last.ops)]
        rows == {r \in tokens : r.jti = c.jti}
    IN
    /\ c.provider = Lower(last.req.provider)
    /\ c.uid = uid
    /\ c.sub = c.provider \o ":" \o uid
    /\ c.exp = c.iat + jwt_exp_seconds
    /\ c.st_hash = "sha256:" \o raw
    /\ \A k \in {"iss", "sub", "provider", "uid", "st_hash"} : c[k] # raw
    /\ set.op = "ts_set" /\ set.jti = c.jti /\ set.ttl = c.exp - c.iat
    /\ Cardinality(rows) = 1
    /\ \A r \in rows :
         LET rec == r.payload.json IN
         /\ rec.provider = c.provider
         /\ rec.uid = c.uid
         /\ rec.st_hash = c.st_hash
         /\ rec.issued_at = c.iat
         /\ rec.expires_at = c.exp
         /\ \A k \in {"provider", "uid", "st_hash"} : rec[k] # raw
         /\ \A k \in DOMAIN rec.meta : rec.meta[k] # raw

\* C20 witness: authenticate("Facebook", tok1) has returned for uid 42
\* with a positive lifetime and its Session Record carries profile data.
C20_Witness ==
  /\ Completed("authenticate") /\ last.status = "ok"
  /\ last.req.provider = "Facebook"
  /\ last.out.claims.sub = "facebook:42"
  /\ last.out.claims.exp > last.out.claims.iat
  /\ \E r \in tokens : /\ r.jti = last.out.claims.jti
                        /\ DOMAIN r.payload.json.meta # {}

\* C18: every failure of the identity store during the upsert step of
\* authenticate (insert_one, the re-read after a uniqueness conflict, the
\* patch) reaches the caller as a DataError.
C18_UpsertFailureIsDataError ==
  (/\ Completed("authenticate")
   /\ last.status = "raised"
   /\ Len(last.ops) > 0
   /\ last.ops[Len(last.ops)].op \in {"insert_one", "find_one", "update_one"})
    => last.exc = "DataError"

\* C15: every failure of a token store operation (set, get, delete,
\* cleanup_expired, cleanup_user), on either backend, reaches the caller as
\* TokenStoreError.
C15_StoreFailureIsTokenStoreError ==
  /\ (/\ last.req.op \in {"get", "delete", "cleanup_expired", "cleanup_user"}
      /\ last.status = "raised")
       => last.exc = "TokenStoreError"
  /\ (/\ Completed("authenticate")
      /\ last.status = "raised"
      /\ Len(last.ops) > 0
      /\ last.ops[Len(last.ops)].op = "ts_set")
       => last.exc = "TokenStoreError"

\* C14 (as amended): a cleanup_user(provider, uid) that returns removes,
\* under sqlite, exactly the Session Records whose payload embeds that
\* provider and that uid and leaves every other record in place; under
\* valkey it removes nothing; on both backends it returns None.
C14_CleanupRemovesExactlyTheUsersRows ==
  [][ (last'.req.op = "cleanup_user" /\ last'.status = "ok") =>
        /\ tokens' =
             IF backend = "sqlite"
               THEN {r \in tokens :
                       ~(/\ r.payload.json.provider = last'.req.provider
                         /\ r.payload.json.uid = last'.req.uid)}
               ELSE tokens
        /\ last'.out = NoResult ]_vars

\* C14 witness: under sqlite a cleanup_user has just returned having
\* removed the record of its identity while the record of another
\* identity with the same uid stays in the table.
C14_Witness ==
  /\ backend = "sqlite"
  /\ Completed("cleanup_user") /\ last.status = "ok"
  /\ \E i \in issued : /\ i.deleted
                        /\ i.claims.provider = last.req.provider
                        /\ i.claims.uid = last.req.uid
                        /\ \A r \in tokens : r.jti # i.claims.jti
  /\ \E r \in tokens : /\ r.payload.json.uid = last.req.uid
                        /\ r.payload.json.provider # last.req.provider

\* C14 (as stated): a cleanup_user(provider, uid) that returns removes,
\* under sqlite, exactly the matching Session Records, under valkey
\* nothing, and returns the number of records it removed.
C14_CleanupReturnsCount ==
  [][ (last'.req.op = "cleanup_user" /\ last'.status = "ok") =>
        /\ tokens' =
             IF backend = "sqlite"
               THEN {r \in tokens :
                       ~(/\ r.payload.json.provider = last'.req.provider
                         /\ r.payload.json.uid = last'.req.uid)}
               ELSE tokens
        /\ last'.out = [value |-> Cardinality(tokens \ tokens')] ]_vars

\* C19: every delete_user that returns True has left a Deletion Record for
\* the (provider, social_id) it removed.
C19_RevokeWritesDeletionRecord ==
  (Completed("delete_user") /\ last.status = "ok") =>
    \E d \in deleted_users : /\ d.provider = last.req.provider
                             /\ d.social_id = last.req.uid

\* C16: over the life of the process each store opens its connection at
\* most once, however many calls pass through init_services and also when
\* one of the two init steps has failed before.
C16_ConnectionsEstablishedOnce ==
  /\ gate.ts_connections <= 1
  /\ gate.mongo_connections <= 1

C22_ConcurrentUpsertsMixButInventNothing ==
  [][ /\ \A p \in Procs :
           (task[p].pc = "update" /\ task'[p].pc = "mint") =>
             LET set == task'[p].ops[Len(task'[p].ops)].set
                 doc == TaskDoc(task[p])
             IN
             /\ Cardinality(users') = 1
             /\ \A d \in users : \A e \in users' : \A k \in DocKeys :
                  e[k] = IF k \in DOMAIN set THEN doc[k] ELSE d[k]
      /\ (\A p \in Procs : /\ task'[p].pc = "mint"
                            /\ OpsNamed(task'[p].ops, "find_one") # {}) =>
           \A e \in users' : \A k \in DocKeys :
             \E p \in Procs : e[k] = TaskDoc(task'[p])[k] ]_vars

\* C22 witness: both upserts have patched the existing record and are
\* complete, and the stored record is the document of neither: some
\* fields come from one upsert, some from the other.
C22_Witness ==
  /\ \A p \in Procs : /\ task[p].pc = "mint"
                       /\ OpsNamed(task[p].ops, "find_one") # {}
                       /\ OpsNamed(task[p].ops, "update_one") # {}
  /\ \E e \in users : \A p \in Procs : e # TaskDoc(task[p])

\* C23: GET /get_user with a bearer token for which verify_app_token
\* returns None (expired, tampered, malformed) ends with 401 "Invalid or
\* expired token", and with a valid token whose Identity Record is absent
\* it ends with 404; neither ends with 500.
C23_InvalidTokenIs401MissingUserIs404 ==
  (/\ Completed("get_user")
   /\ last.req.authorization.scheme = "Bearer"
   /\ ~last.req.authorization.empty) =>
    LET v == verify_app_token(last.req.authorization.token, now) IN
    /\ (v.status = "ok" /\ v.out = NoResult) =>
         /\ last.out = [status_code |-> 401]
         /\ last.msg = "Invalid or expired token"
    /\ (/\ v.status = "ok" /\ v.out # NoResult
        /\ \A d \in users : ~(d.provider = v.out.provider
                                /\ d.social_id = v.out.uid)
        /\ last.ops = <<[op |-> "find_one", ok |-> TRUE]>>) =>
         last.out = [status_code |-> 404]

\* C24: a cleanup_expired that returns removes, under sqlite, exactly the
\* rows a get at the same instant would report as not-found and keeps the
\* rows that get would still return, the rows with expires_at = now among
\* them; under valkey it changes nothing.
C24_SweepAgreesWithGet ==
  [][ (last'.req.op = "cleanup_expired" /\ last'.status = "ok") =>
        tokens' = IF backend = "sqlite"
                    THEN {r \in tokens : ~sqlite_expired(r, now)}
                    ELSE tokens ]_vars

\* C25: an authenticate that ends in failure has made no write to the
\* identity collection that took effect: no insert_one and no update_one
\* of the call returned normally having written (a write returned normally
\* when the call went on to a further store operation).
C25_FailedAuthenticateWritesNoIdentity ==
  (Completed("authenticate") /\ last.status = "raised") =>
    \A k \in 1..(Len(last.ops) - 1) :
      /\ ~(last.ops[k].op = "update_one" /\ last.ops[k].matched)
      /\ ~(last.ops[k].op = "insert_one" /\ last.ops[k + 1].op = "ts_set")

\* C26: under sqlite, for every token authenticate has returned, at every
\* time before its exp claim (when verify_app_token accepts it) and as long
\* as delete was not called with its jti: the row under the jti has an
\* expires_at not earlier than exp, a get that returns gives the Session
\* Record and removes nothing, and cleanup_expired would not remove the row.
C26_RowOutlivesToken ==
  backend = "sqlite" =>
    \A i \in issued :
      (~i.deleted /\ now < i.claims.exp) =>
        /\ verify_app_token(i.app_token, now).out = i.claims
        /\ \E r \in tokens : r.jti = i.claims.jti
        /\ \A r \in tokens :
             r.jti = i.claims.jti =>
               /\ r.expires_at >= i.claims.exp
               /\ ~(now > r.expires_at)
               /\ ~(r.expires_at <= now)
               /\ r.payload.json.expires_at = i.claims.exp
        /\ \A o \in TsGet(tokens, i.claims.jti, now) :
             o.res.status = "ok" =>
               o.res.out # NoResult /\ o.rows = tokens

\* C26 witness: under sqlite the clock moved between minting and set, so the
\* row of a live, still valid token expires later than the token does, and
\* a cleanup_expired has just run without removing it.
C26_Witness ==
  /\ backend = "sqlite"
  /\ Completed("cleanup_expired") /\ last.status = "ok"
  /\ \E i \in issued :
       /\ ~i.deleted /\ i.claims.iat < now /\ now < i.claims.exp
       /\ \E r \in tokens : r.jti = i.claims.jti /\ r.expires_at > i.claims.exp

\* C27: the session-store delete of delete_user(provider, uid, jti) removes
\* only rows whose payload embeds that provider and that uid.
C27_RevokeRemovesOnlyOwnSession ==
  [][ \A p \in Procs :
        (task[p].pc = "ts_delete" /\ task'[p].pc = "idle") =>
          \A r \in tokens \ tokens' :
            /\ r.payload.json.provider = task[p].req.provider
            /\ r.payload.json.uid = task[p].req.uid ]_vars

\* C28: after a delete_user(provider, uid, jti) that returned True and whose
\* session-store delete did not fail, the token store holds no unexpired
\* Session Record that embeds (provider, uid).
C28_RevokeEndsEverySession ==
  (/\ Completed("delete_user") /\ last.status = "ok"
   /\ Len(last.ops) = 2 /\ last.ops[2].ok) =>
    \A r \in tokens :
      ~(/\ r.payload.json.provider = last.req.provider
        /\ r.payload.json.uid = last.req.uid
        /\ now < r.expires_at)

\* C29: with delete_user running concurrently for the same identity, an
\* authenticate never goes on to mint after an update_one that matched no
\* record, and never fails with "Duplicate key but user not found in DB"
\* because the record vanished between its insert_one and its re-read.
C29_UpsertSurvivesConcurrentDelete ==
  Completed("authenticate") =>
    /\ last.msg # "Duplicate key but user not found in DB"
    /\ \A k \in 1..(Len(last.ops) - 1) :
         last.ops[k].op = "update_one" => last.ops[k].matched

====
